---- MODULE Spec2Model ----
(***************************************************************************)
(* Commander core: the sandboxed filesystem boundary (io_jail.py), the     *)
(* spend ledger with its circuit breaker (cfo.py), the model router with   *)
(* its bounded tool-calling loop (router.py) and the action gateway        *)
(* (surgeon.py).                                                           *)
(*                                                                         *)
(* The specifications share the definitions below:                         *)
(*   SpecJail     the PathJail operations called with arbitrary paths;     *)
(*   SpecLedger   worker threads charging the one shared ledger;           *)
(*   Spec         one worker driving router entry points (call stack);     *)
(*   SpecLive     Spec's steps under weak fairness, on a small menu;       *)
(*   SpecFence    refactor_file's fence stripping on every short text;     *)
(*   SpecPricing  estimate_cost on every token count and model;            *)
(*   SpecWatchdog ask_watchdog's verdict on every short answer.            *)
(*                                                                         *)
(* Text is a sequence of string tokens (<<>> is the empty string); money   *)
(* is an integer number of 1e-8 USD.                                       *)
(***************************************************************************)
EXTENDS Integers, Sequences, FiniteSets, TLC

VARIABLES
    fs,        \* the filesystem: canonical absolute path -> node
    cwd,       \* the process working directory (canonical absolute path)
    jop,       \* SpecJail: the last PathJail call and its outcome
    spent,     \* cfo.current_daily_spend
    ceiling,   \* cfo.max_daily_spend
    wk,        \* SpecLedger: each worker's position inside add_cost
    led,       \* SpecLedger: bookkeeping of the calls made so far
    stack,     \* Spec: the call stack of the one worker (innermost last)
    ret,       \* Spec: the value just returned to the frame on top
    done,      \* Spec: the router invocation that returned in the last step
    menu,      \* Spec: the tool-call lists the reasoning backend may answer
    inv        \* Spec: number of entry-point calls made so far

vars == <<fs, cwd, jop, spent, ceiling, wk, led, stack, ret, done, menu, inv>>

routerVars == <<stack, ret, done, menu, inv>>

(***************************************************************************)
(* Paths and the filesystem                                                *)
(***************************************************************************)

\* A path as handed to pathlib: absolute or relative, a sequence of parts
\* ("." parts are dropped by pathlib on construction; ".." is kept).
MkPath(a, ps) == [abs |-> a, parts |-> ps]

NoText == <<>>

DirNode == [kind |-> "dir", content |-> NoText, target |-> <<>>]
FileNode(c) == [kind |-> "file", content |-> c, target |-> <<>>]
LinkNode(t) == [kind |-> "link", content |-> NoText, target |-> t]

AllowedRoot == <<"jail">>

Exists(f, p) == p \in DOMAIN f
IsDir(f, p) == Exists(f, p) /\ f[p].kind = "dir"
IsFile(f, p) == Exists(f, p) /\ f[p].kind = "file"
IsLink(f, p) == Exists(f, p) /\ f[p].kind = "link"

Parent(p) == IF p = <<>> THEN <<>> ELSE SubSeq(p, 1, Len(p) - 1)

\* Depth of symlink chains followed by realpath in the model.
MaxLinkDepth == 2

\* os.path.realpath(strict=False), as Path.resolve() calls it: walk the parts
\* left to right from cur; ".." takes the parent of what is resolved so far,
\* a part naming a symlink is replaced by the link's resolved target, a part
\* that does not exist is appended as it is.
RECURSIVE JoinReal(_, _, _, _)
JoinReal(f, cur, parts, fuel) ==
    IF parts = <<>> THEN cur
    ELSE LET name == Head(parts)
             rest == Tail(parts)
             cand == Append(cur, name)
         IN  IF name = ".." THEN JoinReal(f, Parent(cur), rest, fuel)
             ELSE IF IsLink(f, cand) /\ fuel > 0
                  THEN JoinReal(f, JoinReal(f, <<>>, f[cand].target, fuel - 1),
                                rest, fuel)
                  ELSE JoinReal(f, cand, rest, fuel)

\* Path.resolve() that follows one symlink and leaves a symlink met while
\* resolving its target as it is written.
Resolve_one_link(f, wd, p) ==
    JoinReal(f, IF p.abs THEN <<>> ELSE wd, p.parts, 1)

\* Path(target_path).resolve(): a relative path is taken from the process
\* working directory.
Resolve(f, wd, p) ==
    JoinReal(f, IF p.abs THEN <<>> ELSE wd, p.parts, MaxLinkDepth)

IsPrefix(s, t) == Len(s) <= Len(t) /\ SubSeq(t, 1, Len(s)) = s

\* One file name begins with the other, letter by letter.
NameStartsWith(name, start) ==
    name = start \/ (name = "jailx" /\ start = "jail")

\* Containment as str(path).startswith(str(other)): the last part of other
\* only has to begin the part of path at its place.
relative_to_ok_string_prefix(path, other) ==
    /\ Len(other) <= Len(path)
    /\ \A i \in 1..Len(other) :
          IF i < Len(other) THEN path[i] = other[i]
          ELSE NameStartsWith(path[i], other[i])

\* PurePath.relative_to(other) succeeds iff other's parts are a prefix of
\* the path's parts.
relative_to_ok(path, other) == IsPrefix(other, path)

RelParts(path, other) == SubSeq(path, Len(other) + 1, Len(path))

\* Containment tested on the path as written, symlinks not followed.
verify_path_nofollow(f, wd, p) ==
    LET resolved_path == JoinReal(f, IF p.abs THEN <<>> ELSE wd, p.parts, 0)
    IN  IF IsPrefix(AllowedRoot, resolved_path)
        THEN [exc |-> "ok", path |-> resolved_path]
        ELSE [exc |-> "SecurityViolation", path |-> resolved_path]

\* IOJail._verify_path
verify_path(f, wd, p) ==
    LET resolved_path == Resolve(f, wd, p)
    IN  IF relative_to_ok(resolved_path, AllowedRoot)
        THEN [exc |-> "ok", path |-> resolved_path]
        ELSE [exc |-> "SecurityViolation", path |-> resolved_path]

\* Reading a file opened in text mode with the default newline=None: each
\* "\r\n" and each remaining "\r" comes back as "\n".
RECURSIVE universal_newlines(_)
universal_newlines(t) ==
    IF t = <<>> THEN <<>>
    ELSE IF Head(t) = "\r"
         THEN IF Len(t) >= 2 /\ t[2] = "\n"
              THEN <<"\n">> \o universal_newlines(SubSeq(t, 3, Len(t)))
              ELSE <<"\n">> \o universal_newlines(Tail(t))
         ELSE <<Head(t)>> \o universal_newlines(Tail(t))

\* A read that takes a missing file for an empty one.
read_file_lenient(f, wd, p) ==
    LET v == verify_path(f, wd, p)
    IN  IF v.exc # "ok" THEN [exc |-> v.exc, text |-> NoText]
        ELSE IF ~IsFile(f, v.path) THEN [exc |-> "ok", text |-> NoText]
        ELSE [exc |-> "ok", text |-> universal_newlines(f[v.path].content)]

\* IOJail.read_file
read_file(f, wd, p) ==
    LET v == verify_path(f, wd, p)
    IN  IF v.exc # "ok" THEN [exc |-> v.exc, text |-> NoText]
        ELSE IF ~IsFile(f, v.path) THEN [exc |-> "FileNotFoundError", text |-> NoText]
        ELSE [exc |-> "ok", text |-> universal_newlines(f[v.path].content)]

\* The proper ancestors of p that Path.mkdir(parents=True) would visit.
Ancestors(p) == { SubSeq(p, 1, n) : n \in 0..(Len(p) - 1) }

\* safe_path.parent.mkdir(parents=True, exist_ok=True): "ok" with the missing
\* ancestors created, or the error of the first existing non-directory.
MkdirParents(f, p) ==
    LET anc == Ancestors(p)
        blocked == { a \in anc : Exists(f, a) /\ ~IsDir(f, a) }
        missing == { a \in anc : ~Exists(f, a) }
    IN  IF blocked # {}
        THEN [exc |-> IF Parent(p) \in blocked THEN "FileExistsError"
                      ELSE "NotADirectoryError",
              fs |-> f]
        ELSE [exc |-> "ok",
              fs |-> [q \in DOMAIN f \cup missing |->
                        IF q \in missing THEN DirNode ELSE f[q]]]

\* IOJail.write_file. The file is opened in text mode: on a POSIX build
\* (os.linesep "\n") the characters of content are stored as they are.
write_file(f, wd, p, c) ==
    LET v == verify_path(f, wd, p)
    IN  IF v.exc # "ok" THEN [exc |-> v.exc, fs |-> f]
        ELSE LET m == MkdirParents(f, v.path)
             IN  IF m.exc # "ok" THEN m
                 ELSE IF IsDir(m.fs, v.path)
                      THEN [exc |-> "IsADirectoryError", fs |-> m.fs]
                      ELSE [exc |-> "ok",
                            fs |-> [q \in DOMAIN m.fs \cup {v.path} |->
                                      IF q = v.path THEN FileNode(c) ELSE m.fs[q]]]

\* allowed_directory / dir_path: joining an absolute path replaces the left
\* operand, a relative one is appended to it.
JoinRoot(d) == IF d.abs THEN d ELSE MkPath(TRUE, AllowedRoot \o d.parts)

Children(f, p) == { q \in DOMAIN f : Len(q) = Len(p) + 1 /\ IsPrefix(p, q) }

\* A listing that looks for the directory before it tests containment.
list_files_dir_first(f, wd, d) ==
    LET target == IF d = MkPath(FALSE, <<>>) THEN MkPath(TRUE, AllowedRoot)
                  ELSE JoinRoot(d)
        v == verify_path(f, wd, target)
    IN  IF ~IsDir(f, v.path)
        THEN [exc |-> "NotADirectoryError", entries |-> {}]
        ELSE IF v.exc # "ok" THEN [exc |-> v.exc, entries |-> {}]
             ELSE [exc |-> "ok",
                   entries |-> { MkPath(FALSE, RelParts(q, AllowedRoot)) :
                                   q \in Children(f, v.path) }]

\* IOJail.list_files: the entries of the directory, each relative to the
\* jail root (iterdir's order is the operating system's: a set here).
list_files(f, wd, d) ==
    LET target == IF d = MkPath(FALSE, <<>>) THEN MkPath(TRUE, AllowedRoot)
                  ELSE JoinRoot(d)
        v == verify_path(f, wd, target)
    IN  IF v.exc # "ok" THEN [exc |-> v.exc, entries |-> {}]
        ELSE IF ~IsDir(f, v.path)
             THEN [exc |-> "NotADirectoryError", entries |-> {}]
             ELSE [exc |-> "ok",
                   entries |-> { MkPath(FALSE, RelParts(q, AllowedRoot)) :
                                   q \in Children(f, v.path) }]

(***************************************************************************)
(* SpecJail: the four PathJail operations on arbitrary paths               *)
(***************************************************************************)

TextA == <<"a">>
TextB == <<"b">>
TextCr == <<"b", "\r", "c">>
Secret == <<"root:x">>

BaseFs ==
    LET dirs == { <<>>, <<"jail">>, <<"jail", "sub">>, <<"etc">>, <<"jailx">>,
                  <<"work">> }
        files == { <<"jail", "f">>, <<"jail", "sub", "g">>, <<"etc", "passwd">>,
                   <<"jailx", "f">> }
    IN  [q \in dirs \cup files |->
            IF q \in dirs THEN DirNode
            ELSE IF q = <<"etc", "passwd">> THEN FileNode(Secret)
            ELSE FileNode(TextA)]

\* The same tree with symlinks inside the jail: one that points out of it,
\* one that points at a file of the jail, and one that points at the second.
LinkFs ==
    [q \in DOMAIN BaseFs \cup {<<"jail", "lnk">>, <<"jail", "in">>,
                               <<"jail", "in2">>} |->
        IF q = <<"jail", "lnk">> THEN LinkNode(<<"etc">>)
        ELSE IF q = <<"jail", "in">> THEN LinkNode(<<"jail", "f">>)
        ELSE IF q = <<"jail", "in2">> THEN LinkNode(<<"jail", "in">>)
        ELSE BaseFs[q]]

InitialTrees == {BaseFs, LinkFs}
WorkingDirs == {<<"jail">>, <<"work">>}

JailPaths ==
    { MkPath(TRUE, <<"jail", "f">>),
      MkPath(TRUE, <<"jail", "sub">>),
      MkPath(TRUE, <<"jail", "new", "h">>),
      MkPath(TRUE, <<"jail", "f", "x">>),
      MkPath(TRUE, <<"jail">>),
      MkPath(TRUE, <<"jail", "..", "etc", "passwd">>),
      MkPath(TRUE, <<"etc", "passwd">>),
      MkPath(TRUE, <<"etc", "new", "h">>),
      MkPath(TRUE, <<"jailx", "f">>),
      MkPath(TRUE, <<"jail", "lnk", "passwd">>),
      MkPath(TRUE, <<"jail", "lnk", "x">>),
      MkPath(TRUE, <<"jail", "in2">>),
      MkPath(TRUE, <<"jail", "sub", "..", "f">>),
      MkPath(FALSE, <<>>),
      MkPath(FALSE, <<"f">>),
      MkPath(FALSE, <<"sub">>),
      MkPath(FALSE, <<"..", "etc", "passwd">>) }

JailContents == {TextA, TextCr}

NoJop ==
    [op |-> "none", arg |-> MkPath(FALSE, <<>>), exc |-> "ok", path |-> <<>>,
     text |-> NoText, entries |-> {}, changed |-> FALSE]

JailVerify(p) ==
    LET r == verify_path(fs, cwd, p)
    IN  /\ jop' = [NoJop EXCEPT !.op = "verify", !.arg = p, !.exc = r.exc,
                                !.path = r.path]
        /\ UNCHANGED <<fs, cwd, spent, ceiling, wk, led, routerVars>>

JailRead(p) ==
    LET r == read_file(fs, cwd, p)
    IN  /\ jop' = [NoJop EXCEPT !.op = "read", !.arg = p, !.exc = r.exc,
                                !.text = r.text]
        /\ UNCHANGED <<fs, cwd, spent, ceiling, wk, led, routerVars>>

JailWrite(p, c) ==
    LET r == write_file(fs, cwd, p, c)
    IN  /\ fs' = r.fs
        /\ jop' = [NoJop EXCEPT !.op = "write", !.arg = p, !.exc = r.exc,
                                !.text = c, !.changed = (r.fs # fs)]
        /\ UNCHANGED <<cwd, spent, ceiling, wk, led, routerVars>>

JailList(d) ==
    LET r == list_files(fs, cwd, d)
    IN  /\ jop' = [NoJop EXCEPT !.op = "list", !.arg = d, !.exc = r.exc,
                                !.entries = r.entries]
        /\ UNCHANGED <<fs, cwd, spent, ceiling, wk, led, routerVars>>

InitJail ==
    /\ fs \in InitialTrees
    /\ cwd \in WorkingDirs
    /\ jop = NoJop
    /\ spent = 0
    /\ ceiling = 0
    /\ wk = <<>>
    /\ led = <<>>
    /\ stack = <<>>
    /\ ret = <<>>
    /\ done = <<>>
    /\ menu = <<>>
    /\ inv = 0

NextJail ==
    \/ \E p \in JailPaths : JailVerify(p)
    \/ \E p \in JailPaths : JailRead(p)
    \/ \E p \in JailPaths, c \in JailContents : JailWrite(p, c)
    \/ \E p \in JailPaths : JailList(p)

SpecJail == InitJail /\ [][NextJail]_vars

(***************************************************************************)
(* PathJail claims (SpecJail)                                              *)
(***************************************************************************)

\* The canonical form of a path: what Path.resolve() makes of it.
Canon(p) == Resolve(fs, cwd, p)
Outside(p) == ~IsPrefix(AllowedRoot, Canon(p))

\* The call was refused with SecurityViolation and touched nothing: no file
\* content or listing came back and the filesystem is as it was.
Refused ==
    /\ jop.exc = "SecurityViolation"
    /\ jop.text = (IF jop.op = "write" THEN jop.text ELSE NoText)
    /\ jop.entries = {}
    /\ ~jop.changed

Rates_cheap_fallback(model) ==
    IF model = "gpt-4o" THEN [input |-> 500, output |-> 1500]
    ELSE IF model = "deepseek-coder" THEN [input |-> 14, output |-> 28]
    ELSE IF model = "llama3" THEN [input |-> 0, output |-> 0]
    ELSE [input |-> 14, output |-> 28]

\* pricing_map and the fallback rates, input and output, in 1e-8 USD per
\* token (0.005 / 1000 USD = 500).
Rates(model) ==
    IF model = "gpt-4o" THEN [input |-> 500, output |-> 1500]
    ELSE IF model = "deepseek-coder" THEN [input |-> 14, output |-> 28]
    ELSE IF model = "llama3" THEN [input |-> 0, output |-> 0]
    ELSE [input |-> 1000, output |-> 3000]

\* CFOController.estimate_cost
estimate_cost(prompt_tokens, completion_tokens, model) ==
    LET rates == Rates(model)
    IN  (prompt_tokens * rates.input) + (completion_tokens * rates.output)

\* A ledger that charges only what still fits under the ceiling.
add_cost_store_preventive(loaded, cost_usd) ==
    IF loaded + cost_usd > ceiling THEN loaded ELSE loaded + cost_usd

\* self.current_daily_spend += cost_usd, the value stored: the attribute as
\* it was loaded plus the cost.
add_cost_store(loaded, cost_usd) == loaded + cost_usd

\* The breaker tripping already at the ceiling.
add_cost_check_at(current, max_daily_spend) == current >= max_daily_spend

\* if self.current_daily_spend > self.max_daily_spend: raise
add_cost_check(current, max_daily_spend) == current > max_daily_spend

\* CFOController.add_cost run by one thread with no other thread in between:
\* the new spend and whether TokenLimitExceeded is raised.
add_cost(current, cost_usd) ==
    LET stored == add_cost_store(current, cost_usd)
    IN  [spent |-> stored, raised |-> add_cost_check(stored, ceiling)]

(***************************************************************************)
(* SpecLedger: worker threads (asyncio.to_thread) charging the one ledger. *)
(* add_cost takes no lock, so its attribute load, its attribute store and  *)
(* its comparison are separate steps that other threads may interleave.    *)
(***************************************************************************)

NumWorkers == 2
MaxLedgerCalls == 4
LedgerCeiling == 4000

Workers == 1..NumWorkers
LedgerUsages == { <<0, 0>>, <<1, 1>> }
LedgerModels == { "gpt-4o", "deepseek-coder" }

\* late: the call was entered after some call had raised.
IdleWorker == [pc |-> "idle", amt |-> 0, loaded |-> 0, late |-> FALSE]
NoCall == [valid |-> FALSE, amt |-> 0, raised |-> FALSE, seen |-> 0, cum |-> 0]

AllIdle == \A w \in Workers : wk[w].pc = "idle"

\* cfo.add_cost(cfo.estimate_cost(...)) is entered and the attribute loaded.
AddCostLoad(w, usage, model) ==
    LET cost_usd == estimate_cost(usage[1], usage[2], model)
    IN  /\ wk[w].pc = "idle"
        /\ led.calls < MaxLedgerCalls
        /\ wk' = [wk EXCEPT ![w] = [pc |-> "loaded", amt |-> cost_usd,
                                    loaded |-> spent, late |-> led.tripped]]
        /\ led' = [led EXCEPT !.calls = @ + 1,
                              !.total = @ + cost_usd,
                              !.serial = @ /\ AllIdle]
        /\ UNCHANGED <<fs, cwd, jop, spent, ceiling, routerVars>>

\* The sum is stored back into the attribute.
AddCostStore(w) ==
    /\ wk[w].pc = "loaded"
    /\ spent' = add_cost_store(wk[w].loaded, wk[w].amt)
    /\ wk' = [wk EXCEPT ![w].pc = "stored"]
    /\ UNCHANGED <<fs, cwd, jop, ceiling, led, routerVars>>

\* The attribute is read again and compared with the ceiling; the call
\* returns or raises TokenLimitExceeded.
AddCostCheck(w) ==
    LET raised == add_cost_check(spent, ceiling)
    IN  /\ wk[w].pc = "stored"
        /\ wk' = [wk EXCEPT ![w] = IdleWorker]
        /\ led' = [led EXCEPT
                     !.last = [valid |-> TRUE, amt |-> wk[w].amt,
                               raised |-> raised, seen |-> spent,
                               cum |-> led.total],
                     !.tripped = @ \/ raised]
        /\ UNCHANGED <<fs, cwd, jop, spent, ceiling, routerVars>>

InitLedger ==
    /\ fs = BaseFs
    /\ cwd = AllowedRoot
    /\ jop = NoJop
    /\ spent = 0
    /\ ceiling = LedgerCeiling
    /\ wk = [w \in Workers |-> IdleWorker]
    /\ led = [calls |-> 0, total |-> 0, serial |-> TRUE, tripped |-> FALSE,
              last |-> NoCall]
    /\ stack = <<>>
    /\ ret = <<>>
    /\ done = <<>>
    /\ menu = <<>>
    /\ inv = 0

NextLedger ==
    \/ \E w \in Workers, u \in LedgerUsages, m \in LedgerModels :
            AddCostLoad(w, u, m)
    \/ \E w \in Workers : AddCostStore(w)
    \/ \E w \in Workers : AddCostCheck(w)

SpecLedger == InitLedger /\ [][NextLedger]_vars

(***************************************************************************)
(* Ledger claims (SpecLedger)                                              *)
(***************************************************************************)

\* C2: for add_cost calls made one after another, a call fails CircuitOpen
\* exactly when the cumulative sum of all amounts up to and including it
\* strictly exceeds the ceiling (so the first such call is the first to fail
\* and every call before it succeeds), and at a failure spent equals that
\* cumulative sum: the breaching amount is charged, not rolled back.
C2_PostHocBreaker ==
    (led.serial /\ led.last.valid /\ AllIdle) =>
        /\ led.last.raised <=> (led.last.cum > ceiling)
        /\ led.last.raised => (led.last.seen = led.last.cum /\ spent = led.last.cum)
        /\ spent = led.total

\* C2 witness: 2000 then 2000 were charged without failure and a third
\* call of 42 failed with spent = 4042 over the ceiling of 4000.
C2_Witness ==
    /\ led.serial /\ AllIdle
    /\ led.calls = 3
    /\ led.last.raised
    /\ led.last.amt = 42
    /\ spent = 4042
    /\ ceiling = 4000

\* C4: add_cost is atomic across concurrent workers: whenever no call is in
\* progress, spent equals the sum of all amounts passed (no lost update).
C4_NoLostUpdate == AllIdle => spent = led.total

\* C5: spent is monotonically non-decreasing: no step makes it smaller.
C5_SpentMonotone == [][spent' >= spent]_vars

(***************************************************************************)
(* The model router (router.py) and the action gateway (surgeon.py)        *)
(***************************************************************************)

max_agent_loops == 5
max_retries == 3

cortex_model == "gpt-4o"
muscle_coder == "deepseek-coder"
watchdog_model == "ollama/llama3"

CircuitSentinel ==
    <<"ERROR: FINANCIAL CIRCUIT BREAKER. Daily spend limit reached.">>
LoopSentinel ==
    <<"ERROR: Maximum Agent Loop Count (5) exceeded. Forced abort.">>
ErrorSentinel(e) == <<"ERROR: Model generation failed. Details: ", e>>
SilentSentinel == <<"Task completed silently.">>

\* ---- messages, tool calls, responses ----

Msg(role, content) ==
    [role |-> role, content |-> content, tool_calls |-> <<>>,
     tool_call_id |-> "", name |-> ""]

\* response_msg.model_dump(): the assistant turn with its raw tool-call list.
AssistantMsg(resp) ==
    [role |-> "assistant", content |-> resp.content,
     tool_calls |-> resp.tool_calls, tool_call_id |-> "", name |-> ""]

ToolMsg(call, content) ==
    [role |-> "tool", content |-> content, tool_calls |-> <<>>,
     tool_call_id |-> call.id, name |-> call.name]

NoPath == MkPath(FALSE, <<>>)

\* tool_call.function.arguments: ok says whether json.loads can decode the
\* text, keys are the keys of the decoded object, path is the value of its
\* "filepath" or "mission_name" key.
Args(ok, keys, path) == [ok |-> ok, keys |-> keys, path |-> path]
Call(name, args) == [id |-> "", name |-> name, args |-> args]

NoResp == [tool_calls |-> <<>>, content |-> NoText, usage |-> <<0, 0>>]

\* ---- ToolRegistry ----

ExcText(name, e) == <<"Error executing ", name, ": ", e>>

RECURSIVE RenderEntries(_)
RenderEntries(es) ==
    IF es = {} THEN <<>>
    ELSE LET e == CHOOSE x \in es : TRUE
         IN  <<"'">> \o e.parts \o <<"'">> \o RenderEntries(es \ {e})

\* str(list_files(...)): the entries between brackets.
RenderList(es) == <<"[">> \o RenderEntries(es) \o <<"]">>

\* _execute_tool up to the point where it either has its result string or
\* calls into the surgeon: [k |-> "text"] with the string, or [k |->
\* "refactor" / "validate"] with the file to work on.
execute_tool(f, wd, name, args) ==
    LET text(t) == [k |-> "text", text |-> t, path |-> NoPath]
        missing(keys) == ~(keys \subseteq args.keys)
    IN  IF name = "list_files"
        THEN IF missing({"mission_name"}) THEN text(ExcText(name, "KeyError"))
             ELSE LET r == list_files(f, wd, args.path)
                  IN  IF r.exc # "ok" THEN text(ExcText(name, r.exc))
                      ELSE text(RenderList(r.entries))
        ELSE IF name = "read_file"
        THEN IF missing({"filepath"}) THEN text(ExcText(name, "KeyError"))
             ELSE LET r == read_file(f, wd, args.path)
                  IN  IF r.exc # "ok" THEN text(ExcText(name, r.exc))
                      ELSE text(r.text)
        ELSE IF name = "refactor_file"
        THEN IF missing({"filepath", "objective"})
             THEN text(ExcText(name, "KeyError"))
             ELSE [k |-> "refactor", text |-> NoText, path |-> args.path]
        ELSE IF name = "validate_code"
        THEN IF missing({"filepath", "command_list"})
             THEN text(ExcText(name, "KeyError"))
             ELSE [k |-> "validate", text |-> NoText, path |-> args.path]
        ELSE text(<<"Tool '", name, "' not found.">>)

\* _execute_tool after the surgeon returned: the result string, or the
\* error string when an exception came out of the surgeon.
tool_result(name, r) ==
    IF r.exc # "" THEN ExcText(name, r.exc)
    ELSE IF name = "refactor_file"
         THEN IF r.b THEN <<"File rewritten successfully.">>
              ELSE <<"Failed to rewrite file.">>
         ELSE IF r.b THEN <<"Validation passed! Zero errors.">>
              ELSE <<"Validation failed after maximum self-correction retries.">>

\* ---- frames of the call stack ----

BlankFrame ==
    [k |-> "", tier |-> "", model |-> "", use_tools |-> FALSE, msgs |-> <<>>,
     loops |-> 0, pc |-> "", resp |-> NoResp, idx |-> 0, reqs |-> 0,
     sent |-> 0, charged |-> FALSE, path |-> NoPath, retries |-> 0,
     runs |-> 0, fixes |-> 0, last |-> "", new_code |-> NoText]

\* _route_request entered: loops = 0, current_messages = messages.copy().
route_request(tier, model_choice, messages, use_tools) ==
    [BlankFrame EXCEPT !.k = "route", !.tier = tier, !.model = model_choice,
                       !.use_tools = use_tools, !.msgs = messages,
                       !.pc = "request"]

SystemPrompt == <<"Du ar The Commander">>

\* ask_cortex: system turn, prior history, user turn; tools offered.
ask_cortex(user_prompt, history) ==
    route_request("cortex", cortex_model,
                  <<Msg("system", SystemPrompt)>> \o history
                      \o <<Msg("user", user_prompt)>>,
                  TRUE)

\* ask_muscle_coder: one system and one user turn, no tools offered.
ask_muscle_coder(task_description, code_context) ==
    route_request("muscle", muscle_coder,
                  << Msg("system", <<"You are an expert, precise code generator.">>),
                     Msg("user", <<"Context:", "\n">> \o code_context
                                   \o <<"\n", "\n", "Task:", "\n">>
                                   \o task_description) >>,
                  FALSE)

\* ask_watchdog's request: one system and one user turn, no tools offered.
watchdog_request(context_to_evaluate) ==
    route_request("watchdog", watchdog_model,
                  << Msg("system", <<"You are a watchdog evaluating system state.">>),
                     Msg("user", context_to_evaluate) >>,
                  FALSE)

refactor_frame(filepath) ==
    [BlankFrame EXCEPT !.k = "refactor", !.pc = "start", !.path = filepath]

validate_frame(filepath) ==
    [BlankFrame EXCEPT !.k = "validate", !.pc = "run", !.path = filepath]

watchdog_frame == [BlankFrame EXCEPT !.k = "watchdog", !.pc = "await"]

\* ---- what one step of a frame comes to ----

\* The frame goes on as fr.
Goes(fr) ==
    [kind |-> "step", frame |-> fr, cause |-> "", text |-> NoText, exc |-> "",
     callee |-> BlankFrame]
\* The frame waits as fr while callee runs.
Calls(fr, callee) ==
    [kind |-> "call", frame |-> fr, cause |-> "", text |-> NoText, exc |-> "",
     callee |-> callee]
\* _route_request returns text.
Returns(fr, cause, text) ==
    [kind |-> "return", frame |-> fr, cause |-> cause, text |-> text, exc |-> "",
     callee |-> BlankFrame]
\* An exception leaves _route_request.
Escapes(fr, e) ==
    [kind |-> "escape", frame |-> fr, cause |-> "escape", text |-> NoText,
     exc |-> e, callee |-> BlankFrame]

\* Only the budget exception is handled; anything else propagates.
route_except_budget_only(fr, e) ==
    IF e = "TokenLimitExceeded" THEN Returns(fr, "circuit", CircuitSentinel)
    ELSE Escapes(fr, e)

\* The except clauses of _route_request's loop body.
route_except(fr, e) ==
    IF e = "TokenLimitExceeded" THEN Returns(fr, "circuit", CircuitSentinel)
    ELSE Returns(fr, "error", ErrorSentinel(e))

\* completion(...) answered or raised: a response is kept for charging.
on_completion(fr, failed, resp) ==
    LET fr1 == [fr EXCEPT !.reqs = @ + 1, !.sent = Len(fr.msgs),
                          !.charged = FALSE, !.resp = NoResp]
    IN  IF failed THEN route_except(fr1, "BackendFailure")
        ELSE Goes([fr1 EXCEPT !.resp = resp, !.pc = "charge"])

\* A router that logs the breach and carries on with the response.
on_charge_carry_on(fr, raised) ==
    Goes([fr EXCEPT !.charged = TRUE, !.pc = "dispatch"])

\* cfo.add_cost(...) returned or raised TokenLimitExceeded.
on_charge(fr, raised) ==
    IF raised THEN route_except([fr EXCEPT !.charged = TRUE], "TokenLimitExceeded")
    ELSE Goes([fr EXCEPT !.charged = TRUE, !.pc = "dispatch"])

\* A loop that returns the content as it came, empty or not.
dispatch_raw(fr) ==
    IF fr.resp.tool_calls # <<>>
    THEN Goes([fr EXCEPT !.msgs = Append(@, AssistantMsg(fr.resp)),
                         !.pc = "tools", !.idx = 1])
    ELSE Returns(fr, "final", fr.resp.content)

\* The response is looked at: tool calls are queued behind the assistant
\* turn, a response without any is the final answer.
dispatch(fr) ==
    IF fr.resp.tool_calls # <<>>
    THEN Goes([fr EXCEPT !.msgs = Append(@, AssistantMsg(fr.resp)),
                         !.pc = "tools", !.idx = 1])
    ELSE Returns(fr, "final",
                 IF fr.resp.content = NoText THEN SilentSentinel
                 ELSE fr.resp.content)

\* A loop that keeps only the latest tool result: the result takes the place
\* of the last message.
append_result_replace_last(fr, content) ==
    [fr EXCEPT !.msgs = Append(SubSeq(@, 1, Len(@) - 1),
                               ToolMsg(fr.resp.tool_calls[fr.idx], content)),
               !.idx = @ + 1, !.pc = "tools"]

\* The tool's result is appended as a tool turn and the next call is due.
append_result(fr, content) ==
    [fr EXCEPT !.msgs = Append(@, ToolMsg(fr.resp.tool_calls[fr.idx], content)),
               !.idx = @ + 1, !.pc = "tools"]

\* A loop that tests its bound with <= lets one more round through.
end_round_one_more(fr) ==
    IF fr.loops + 1 <= max_agent_loops
    THEN Goes([fr EXCEPT !.loops = @ + 1, !.pc = "request"])
    ELSE Returns([fr EXCEPT !.loops = @ + 1], "loop", LoopSentinel)

\* loops += 1; continue: the while test lets the next request through or the
\* function falls out of the loop with the loop-exceeded answer.
end_round(fr) ==
    IF fr.loops + 1 < max_agent_loops
    THEN Goes([fr EXCEPT !.loops = @ + 1, !.pc = "request"])
    ELSE Returns([fr EXCEPT !.loops = @ + 1], "loop", LoopSentinel)

\* for tool_call in response_msg.tool_calls, one iteration up to the call
\* into the tool: json.loads of the arguments, then _execute_tool.
tool_step(fr, f, wd) ==
    LET call == fr.resp.tool_calls[fr.idx]
    IN  IF ~call.args.ok THEN route_except(fr, "JSONDecodeError")
        ELSE LET e == execute_tool(f, wd, call.name, call.args)
             IN  IF e.k = "text" THEN Goes(append_result(fr, e.text))
                 ELSE IF e.k = "refactor"
                      THEN Calls([fr EXCEPT !.pc = "toolwait"], refactor_frame(e.path))
                      ELSE Calls([fr EXCEPT !.pc = "toolwait"], validate_frame(e.path))

\* ---- Surgeon ----

\* The markdown fence marker, three backticks.
Fence == "FENCE"

RECURSIVE SplitLines(_, _)
\* new_code.split('\n'): cur is the line being collected.
SplitLines(t, cur) ==
    IF t = <<>> THEN <<cur>>
    ELSE IF Head(t) = "\n" THEN <<cur>> \o SplitLines(Tail(t), <<>>)
    ELSE SplitLines(Tail(t), Append(cur, Head(t)))

RECURSIVE KeepInBlock(_, _)
\* The loop over the lines: a line starting with the fence toggles in_block
\* and is dropped, other lines are kept while in_block.
KeepInBlock(lines, in_block) ==
    IF lines = <<>> THEN <<>>
    ELSE LET line == Head(lines)
         IN  IF line # <<>> /\ line[1] = Fence
             THEN KeepInBlock(Tail(lines), ~in_block)
             ELSE IF in_block THEN <<line>> \o KeepInBlock(Tail(lines), in_block)
                  ELSE KeepInBlock(Tail(lines), in_block)

RECURSIVE JoinLines(_)
\* '\n'.join(code_lines)
JoinLines(lines) ==
    IF lines = <<>> THEN <<>>
    ELSE IF Len(lines) = 1 THEN lines[1]
    ELSE lines[1] \o <<"\n">> \o JoinLines(Tail(lines))

\* An extraction that runs only when some line begins with the marker.
strip_fences_line_test(new_code) ==
    IF \E i \in 1..Len(new_code) :
          new_code[i] = Fence /\ (i = 1 \/ new_code[i - 1] = "\n")
    THEN JoinLines(KeepInBlock(SplitLines(new_code, <<>>), FALSE))
    ELSE new_code

\* The fence extraction of refactor_file.
strip_fences(new_code) ==
    IF \E i \in 1..Len(new_code) : new_code[i] = Fence
    THEN JoinLines(KeepInBlock(SplitLines(new_code, <<>>), FALSE))
    ELSE new_code

RefactorTask == <<"Refactor this file to achieve: ", "objective">>

\* ---- Surgeon.validate_code ----

\* What one step of validate_code comes to: it returns b, calls
\* refactor_file ("fix"), or goes round the loop ("again").
Verdict(kind, b, fr) == [kind |-> kind, b |-> b, frame |-> fr]

\* A loop that treats a timeout like a failed run and repairs.
validate_run_retry_timeout(fr, outcome) ==
    LET fr1 == [fr EXCEPT !.runs = @ + 1, !.last = outcome]
    IN  IF outcome = "exit0" THEN Verdict("return", TRUE, fr1)
        ELSE IF outcome \in {"exit1", "timeout"}
             THEN Verdict("fix", FALSE, [fr1 EXCEPT !.fixes = @ + 1, !.pc = "await"])
             ELSE Verdict("return", FALSE, fr1)

\* A loop that repairs once more after the command has passed.
validate_run_fix_after_pass(fr, outcome) ==
    LET fr1 == [fr EXCEPT !.runs = @ + 1, !.last = outcome]
    IN  IF outcome \in {"exit0", "exit1"}
        THEN IF outcome = "exit0" /\ fr.fixes # 1
             THEN Verdict("return", TRUE, fr1)
             ELSE Verdict("fix", FALSE, [fr1 EXCEPT !.fixes = @ + 1, !.pc = "await"])
        ELSE Verdict("return", FALSE, fr1)

\* subprocess.run(...) and the branches on its outcome: exit code 0 returns
\* True, another exit code calls refactor_file, TimeoutExpired and any other
\* exception break out of the loop.  runs, fixes and last record the
\* executions, the repairs and the last outcome.
validate_run(fr, outcome) ==
    LET fr1 == [fr EXCEPT !.runs = @ + 1, !.last = outcome]
    IN  IF outcome = "exit0" THEN Verdict("return", TRUE, fr1)
        ELSE IF outcome = "exit1"
             THEN Verdict("fix", FALSE, [fr1 EXCEPT !.fixes = @ + 1, !.pc = "await"])
             ELSE Verdict("return", FALSE, fr1)

\* A loop that starts over after every repair.
validate_resume_start_over(fr) ==
    Verdict("again", FALSE, [fr EXCEPT !.pc = "run", !.runs = 0, !.fixes = 0])

\* A loop that tests its bound with <=.
validate_resume_one_more(fr) ==
    IF fr.retries + 1 <= max_retries
    THEN Verdict("again", FALSE, [fr EXCEPT !.retries = @ + 1, !.pc = "run"])
    ELSE Verdict("return", FALSE, [fr EXCEPT !.retries = @ + 1])

\* retries += 1 and the while test.
validate_resume(fr) ==
    IF fr.retries + 1 < max_retries
    THEN Verdict("again", FALSE, [fr EXCEPT !.retries = @ + 1, !.pc = "run"])
    ELSE Verdict("return", FALSE, [fr EXCEPT !.retries = @ + 1])

\* "YES" in response.upper(), on texts spelled letter by letter.
Upper(c) ==
    IF c = "y" THEN "Y" ELSE IF c = "e" THEN "E" ELSE IF c = "s" THEN "S"
    ELSE IF c = "n" THEN "N" ELSE IF c = "o" THEN "O" ELSE c

\* Variant: the test without upper(), "YES" in response.
ContainsYes_case_sensitive(t) ==
    \E i \in 1..(Len(t) - 2) :
        t[i] = "Y" /\ t[i + 1] = "E" /\ t[i + 2] = "S"

ContainsYes(t) ==
    \E i \in 1..(Len(t) - 2) :
        Upper(t[i]) = "Y" /\ Upper(t[i + 1]) = "E" /\ Upper(t[i + 2]) = "S"

(***************************************************************************)
(* Spec: one worker calling the router's entry points                      *)
(***************************************************************************)

MaxInvocations == 2
RouterCeiling == 10100

NoRet == [has |-> FALSE, b |-> FALSE, t |-> NoText, exc |-> ""]
RetText(t) == [has |-> TRUE, b |-> FALSE, t |-> t, exc |-> ""]
RetBool(b) == [has |-> TRUE, b |-> b, t |-> NoText, exc |-> ""]
RetExc(e) == [has |-> TRUE, b |-> FALSE, t |-> NoText, exc |-> e]

NoDone == [valid |-> FALSE, cause |-> "", result |-> NoText, frame |-> BlankFrame]

Top == stack[Len(stack)]
Below == SubSeq(stack, 1, Len(stack) - 1)
TopIs(k, pc) == stack # <<>> /\ Top.k = k /\ Top.pc = pc

\* The outcome of a step of the _route_request frame on top takes effect.
Apply(out) ==
    IF out.kind = "step"
    THEN stack' = Append(Below, out.frame) /\ ret' = NoRet /\ done' = NoDone
    ELSE IF out.kind = "call"
    THEN /\ stack' = Below \o <<out.frame, out.callee>>
         /\ ret' = NoRet
         /\ done' = NoDone
    ELSE /\ stack' = Below
         /\ ret' = (IF out.kind = "return" THEN RetText(out.text)
                    ELSE RetExc(out.exc))
         /\ done' = [valid |-> TRUE, cause |-> out.cause, result |-> out.text,
                     frame |-> out.frame]

\* refactor_file or validate_code returns a boolean; fr is the frame as it
\* was when it returned.
SurgeonReturns(fr, b) ==
    /\ stack' = Below
    /\ ret' = RetBool(b)
    /\ done' = [valid |-> FALSE, cause |-> fr.k, result |-> NoText, frame |-> fr]

\* ---- the backends ----

Answer == <<"ok">>
TextFenced == <<Fence, "python", "\n", "b", "\n", Fence>>
RouterUsages == { <<1, 1>> }

IdOf(i) == <<"call_1", "call_2", "call_3">>[i]
\* The backend numbers the calls of one response.
WithIds(calls) == [i \in 1..Len(calls) |-> [calls[i] EXCEPT !.id = IdOf(i)]]

FileF == MkPath(TRUE, <<"jail", "f">>)
FileNone == MkPath(TRUE, <<"jail", "nofile">>)
FileOut == MkPath(TRUE, <<"etc", "passwd">>)
DirSub == MkPath(FALSE, <<"sub">>)
FileDir == MkPath(TRUE, <<"jail", "sub">>)

ListSub == Call("list_files", Args(TRUE, {"mission_name"}, DirSub))
ReadF == Call("read_file", Args(TRUE, {"filepath"}, FileF))
ReadOut == Call("read_file", Args(TRUE, {"filepath"}, FileOut))
ReadNone == Call("read_file", Args(TRUE, {"filepath"}, FileNone))
ReadNoKey == Call("read_file", Args(TRUE, {}, NoPath))
ReadBadJson == Call("read_file", Args(FALSE, {}, NoPath))
RefactorF == Call("refactor_file", Args(TRUE, {"filepath", "objective"}, FileF))
RefactorNone == Call("refactor_file", Args(TRUE, {"filepath", "objective"}, FileNone))
RefactorOut == Call("refactor_file", Args(TRUE, {"filepath", "objective"}, FileOut))
RefactorDir == Call("refactor_file", Args(TRUE, {"filepath", "objective"}, FileDir))
ValidateF == Call("validate_code", Args(TRUE, {"filepath", "command_list"}, FileF))
Deploy == Call("deploy", Args(TRUE, {}, NoPath))

\* What the backends answer with in one behaviour: the tool-call lists of the
\* reasoning backend, and whether the fast-coder backend, which is offered no
\* tools, answers with a tool call all the same.
Profile(calls, muscle_calls) == [calls |-> calls, muscle_calls |-> muscle_calls]

Menus ==
    { Profile({ <<ReadF>>, <<ListSub, ReadOut>> }, FALSE),
      Profile({ <<Deploy, ReadNoKey>>, <<ReadNone>>, <<ReadF, ReadBadJson>> }, FALSE),
      Profile({ <<RefactorF>>, <<RefactorNone, RefactorOut, RefactorDir>> }, FALSE),
      Profile({ <<ValidateF>> }, FALSE),
      Profile({ <<RefactorF>> }, TRUE) }

Final(content, usage) == [tool_calls |-> <<>>, content |-> content, usage |-> usage]
ToolCalls(calls, usage) ==
    [tool_calls |-> WithIds(calls), content |-> NoText, usage |-> usage]

\* What completion() may return for a request of the given tier.
Responses(tier) ==
    IF tier = "cortex"
    THEN { Final(c, u) : c \in {NoText, Answer}, u \in RouterUsages }
         \cup { ToolCalls(tc, u) : tc \in menu.calls, u \in RouterUsages }
    ELSE IF tier = "muscle"
    THEN { Final(c, u) : c \in {TextB, TextFenced}, u \in RouterUsages }
         \cup { ToolCalls(<<Deploy>>, u) : u \in {v \in RouterUsages : menu.muscle_calls} }
    ELSE { Final(c, u) : c \in { <<"Y", "E", "S">>, <<"n", "o">> },
                         u \in RouterUsages }

AllResponses ==
    Responses("cortex") \cup Responses("muscle") \cup Responses("watchdog")

History1 == << Msg("user", <<"hello">>), Msg("assistant", Answer) >>
Histories == { <<>>, History1 }
UserPrompt == <<"objective">>

\* ---- entry points ----

Idle == stack = <<>> /\ ~ret.has

\* chat_handler / watchdog_heartbeat / pipeline call router.ask_cortex.
EnterAskCortex(history) ==
    /\ Idle
    /\ inv < MaxInvocations
    /\ inv' = inv + 1
    /\ stack' = <<ask_cortex(UserPrompt, history)>>
    /\ ret' = NoRet
    /\ done' = NoDone
    /\ UNCHANGED <<fs, cwd, jop, spent, ceiling, wk, led, menu>>

\* watchdog_heartbeat calls router.ask_watchdog.
EnterAskWatchdog ==
    /\ Idle
    /\ inv < MaxInvocations
    /\ inv' = inv + 1
    /\ stack' = <<watchdog_frame, watchdog_request(<<"All targets nominal.">>)>>
    /\ ret' = NoRet
    /\ done' = NoDone
    /\ UNCHANGED <<fs, cwd, jop, spent, ceiling, wk, led, menu>>

\* The caller takes the value the entry point returned.
Deliver ==
    /\ stack = <<>>
    /\ ret.has
    /\ ret' = NoRet
    /\ done' = NoDone
    /\ UNCHANGED <<fs, cwd, jop, spent, ceiling, wk, led, stack, menu, inv>>

\* ---- the loop of _route_request ----

\* completion(...) raises.
BackendFails ==
    /\ TopIs("route", "request")
    /\ Apply(on_completion(Top, TRUE, NoResp))
    /\ UNCHANGED <<fs, cwd, jop, spent, ceiling, wk, led, menu, inv>>

\* completion(...) returns a response.
BackendAnswers(resp) ==
    /\ TopIs("route", "request")
    /\ resp \in Responses(Top.tier)
    /\ Apply(on_completion(Top, FALSE, resp))
    /\ UNCHANGED <<fs, cwd, jop, spent, ceiling, wk, led, menu, inv>>

\* cfo.add_cost(cfo.estimate_cost(prompt_tokens, completion_tokens, model))
Charge ==
    /\ TopIs("route", "charge")
    /\ LET u == Top.resp.usage
           a == add_cost(spent, estimate_cost(u[1], u[2], Top.model))
       IN  /\ spent' = a.spent
           /\ Apply(on_charge(Top, a.raised))
    /\ UNCHANGED <<fs, cwd, jop, ceiling, wk, led, menu, inv>>

Dispatch ==
    /\ TopIs("route", "dispatch")
    /\ Apply(dispatch(Top))
    /\ UNCHANGED <<fs, cwd, jop, spent, ceiling, wk, led, menu, inv>>

ToolStep ==
    /\ TopIs("route", "tools")
    /\ Top.idx <= Len(Top.resp.tool_calls)
    /\ Apply(tool_step(Top, fs, cwd))
    /\ UNCHANGED <<fs, cwd, jop, spent, ceiling, wk, led, menu, inv>>

\* The surgeon came back into _execute_tool.
ToolReturn ==
    /\ TopIs("route", "toolwait")
    /\ ret.has
    /\ Apply(Goes(append_result(Top,
                tool_result(Top.resp.tool_calls[Top.idx].name, ret))))
    /\ UNCHANGED <<fs, cwd, jop, spent, ceiling, wk, led, menu, inv>>

EndRound ==
    /\ TopIs("route", "tools")
    /\ Top.idx > Len(Top.resp.tool_calls)
    /\ Apply(end_round(Top))
    /\ UNCHANGED <<fs, cwd, jop, spent, ceiling, wk, led, menu, inv>>

\* ---- Surgeon.refactor_file ----

\* read_file, then the call to router.ask_muscle_coder.
RefactorStart ==
    /\ TopIs("refactor", "start")
    /\ LET r == read_file(fs, cwd, Top.path)
       IN  IF r.exc # "ok" THEN SurgeonReturns(Top, FALSE)
           ELSE /\ stack' = Below \o << [Top EXCEPT !.pc = "await"],
                                        ask_muscle_coder(RefactorTask, r.text) >>
                /\ ret' = NoRet
                /\ done' = NoDone
    /\ UNCHANGED <<fs, cwd, jop, spent, ceiling, wk, led, menu, inv>>

\* The fence extraction and write_file; any exception gives False.
RefactorFinish ==
    /\ TopIs("refactor", "await")
    /\ ret.has
    /\ LET fr == [Top EXCEPT !.new_code = ret.t, !.pc = "write"]
       IN  IF ret.exc # "" THEN fs' = fs /\ SurgeonReturns(fr, FALSE)
           ELSE LET w == write_file(fs, cwd, Top.path, strip_fences(ret.t))
                IN  fs' = w.fs /\ SurgeonReturns(fr, w.exc = "ok")
    /\ UNCHANGED <<cwd, jop, spent, ceiling, wk, led, menu, inv>>

\* ---- Surgeon.validate_code ----

ExitCodes == {"exit0", "exit1", "timeout", "oserror"}

\* subprocess.run(...) and what follows it in the loop body.
ValidateRun(outcome) ==
    /\ TopIs("validate", "run")
    /\ LET v == validate_run(Top, outcome)
       IN  IF v.kind = "fix"
           THEN /\ stack' = Below \o << v.frame, refactor_frame(Top.path) >>
                /\ ret' = NoRet
                /\ done' = NoDone
           ELSE SurgeonReturns(v.frame, v.b)
    /\ UNCHANGED <<fs, cwd, jop, spent, ceiling, wk, led, menu, inv>>

\* refactor_file returned; retries += 1 and the while test.
ValidateResume ==
    /\ TopIs("validate", "await")
    /\ ret.has
    /\ LET v == validate_resume(Top)
       IN  IF v.kind = "again"
           THEN /\ stack' = Append(Below, v.frame)
                /\ ret' = NoRet
                /\ done' = NoDone
           ELSE SurgeonReturns(v.frame, v.b)
    /\ UNCHANGED <<fs, cwd, jop, spent, ceiling, wk, led, menu, inv>>

\* ask_watchdog returns b for the text its request produced.
WatchdogReturns(response, b) ==
    /\ stack' = Below
    /\ ret' = RetBool(b)
    /\ done' = [valid |-> FALSE, cause |-> "watchdog", result |-> response,
                frame |-> Top]

\* ask_watchdog: "YES" in response.upper(); an exception that escaped
\* _route_request passes through ask_watchdog, which has no handler.
WatchdogFinish ==
    /\ TopIs("watchdog", "await")
    /\ ret.has
    /\ IF ret.exc # ""
       THEN stack' = Below /\ ret' = ret /\ done' = NoDone
       ELSE WatchdogReturns(ret.t, ContainsYes(ret.t))
    /\ UNCHANGED <<fs, cwd, jop, spent, ceiling, wk, led, menu, inv>>

Init ==
    /\ fs = BaseFs
    /\ cwd = AllowedRoot
    /\ jop = NoJop
    /\ spent = 0
    /\ ceiling = RouterCeiling
    /\ wk = <<>>
    /\ led = <<>>
    /\ stack = <<>>
    /\ ret = NoRet
    /\ done = NoDone
    /\ menu \in Menus
    /\ inv = 0

Next ==
    \/ \E h \in Histories : EnterAskCortex(h)
    \/ EnterAskWatchdog
    \/ Deliver
    \/ BackendFails
    \/ \E r \in AllResponses : BackendAnswers(r)
    \/ Charge
    \/ Dispatch
    \/ ToolStep
    \/ ToolReturn
    \/ EndRound
    \/ RefactorStart
    \/ RefactorFinish
    \/ \E o \in ExitCodes : ValidateRun(o)
    \/ ValidateResume
    \/ WatchdogFinish

Spec == Init /\ [][Next]_vars

(***************************************************************************)
(* Router claims (Spec)                                                    *)
(***************************************************************************)

\* The _route_request frame of the reasoning tier that is running or has
\* just returned.
CortexFrames ==
    { stack[i] : i \in { j \in 1..Len(stack) : stack[j].tier = "cortex" } }
        \cup (IF done.valid /\ done.frame.tier = "cortex" THEN {done.frame} ELSE {})

\* C3: one ask_cortex invocation never issues more than max_agent_loops (5)
\* backend requests, however many tool calls each response carries.
C3_AtMostMaxLoopsRequests == \A fr \in CortexFrames : fr.reqs <= max_agent_loops

\* C3 witness: an invocation returned the loop-exceeded answer after exactly
\* five requests, one of whose responses carried two tool calls.
C3_Witness ==
    /\ done.valid
    /\ done.cause = "loop"
    /\ done.frame.tier = "cortex"
    /\ done.frame.reqs = 5
    /\ \E i \in 1..Len(done.frame.msgs) : Len(done.frame.msgs[i].tool_calls) = 2

\* C6: every backend response is charged before it is acted upon, and a
\* charge that raises CircuitOpen ends the invocation at once: the response
\* is never dispatched, the fixed sentinel is returned, and the conversation
\* is as it was sent (no assistant turn, no tool result of that response).
C6_ChargedBeforeActing ==
    /\ \A i \in 1..Len(stack) :
          (stack[i].k = "route" /\ stack[i].pc \in {"dispatch", "tools", "toolwait"})
              => stack[i].charged
    /\ TopIs("route", "dispatch") => spent <= ceiling
    /\ (done.valid /\ done.cause = "final") => done.frame.charged
    /\ (done.valid /\ done.cause = "circuit") =>
          /\ done.result = CircuitSentinel
          /\ done.frame.pc = "charge"
          /\ Len(done.frame.msgs) = done.frame.sent

\* C6 witness: a reasoning response that carried tool calls was charged,
\* the charge breached the ceiling, and the invocation returned the sentinel.
C6_Witness ==
    /\ done.valid
    /\ done.cause = "circuit"
    /\ done.frame.tier = "cortex"
    /\ done.frame.resp.tool_calls # <<>>
    /\ spent > ceiling
    /\ ret.t = CircuitSentinel

\* A step in which completion() is called.
RequestIssued == TopIs("route", "request") /\ stack' # stack

\* C7: once spent exceeds the ceiling, no router entry point issues another
\* backend request and nothing more is charged.
C7_BlockedAfterBreach ==
    [][(spent > ceiling) => (~RequestIssued /\ spent' = spent)]_vars

\* Every assistant turn with k tool calls is followed by exactly k tool
\* turns, the j-th carrying the id of the j-th call.
RoundsComplete(msgs) ==
    \A i \in 1..Len(msgs) :
        LET k == Len(msgs[i].tool_calls)
        IN  (msgs[i].role = "assistant" /\ k >= 1) =>
                /\ i + k <= Len(msgs)
                /\ \A j \in 1..k :
                      /\ msgs[i + j].role = "tool"
                      /\ msgs[i + j].tool_call_id = msgs[i].tool_calls[j].id
                /\ (i + k < Len(msgs)) => msgs[i + k + 1].role # "tool"

\* While the tool calls of a response are being executed, the conversation
\* ends with the assistant turn and the results of the calls before the
\* current one, in the order of the calls.
RoundInOrder(fr) ==
    LET n == Len(fr.msgs)
        m == fr.idx - 1
    IN  /\ n > m
        /\ fr.msgs[n - m] = AssistantMsg(fr.resp)
        /\ \A j \in 1..m :
              /\ fr.msgs[n - m + j].role = "tool"
              /\ fr.msgs[n - m + j].tool_call_id = fr.resp.tool_calls[j].id

\* C8: for every response with k >= 1 tool calls the loop appends the
\* assistant turn and then exactly k tool results, the i-th with the id of
\* the i-th call, one tool at a time and in the order of the calls: so it
\* is whenever the loop sends its next request or returns.
C8_ToolResultsInOrder ==
    /\ \A i \in 1..Len(stack) :
          /\ (stack[i].k = "route" /\ stack[i].pc \in {"tools", "toolwait"})
                => RoundInOrder(stack[i])
          /\ (stack[i].k = "route" /\ stack[i].pc = "request")
                => RoundsComplete(stack[i].msgs)
    /\ done.valid => RoundsComplete(done.frame.msgs)

\* C9: no failure while handling a tool call ends the loop: an invocation
\* never returns from the middle of a round of tool calls (it leaves the
\* round only through the loop bound, after every call has its result).
C9_ToolFailureNeverEndsLoop ==
    done.valid =>
        \/ done.frame.pc \notin {"tools", "toolwait"}
        \/ /\ done.cause = "loop"
           /\ done.frame.idx > Len(done.frame.resp.tool_calls)

RouterExceptions == {"BackendFailure", "JSONDecodeError"}

\* C10: no exception escapes the router: every invocation of _route_request,
\* at any tier, returns a non-empty string; CircuitOpen, the loop bound and
\* any other failure each come back as their sentinel.
C10_AlwaysReturnsString ==
    done.valid =>
        /\ ret.has /\ ret.exc = ""
        /\ ret.t = done.result
        /\ done.result # NoText
        /\ done.cause \in {"final", "circuit", "loop", "error"}
        /\ done.cause = "circuit" => done.result = CircuitSentinel
        /\ done.cause = "loop" => done.result = LoopSentinel
        /\ done.cause = "error" =>
              \E e \in RouterExceptions : done.result = ErrorSentinel(e)

\* C10 witness: a transport failure at the fast-coder tier came back to
\* refactor_file as the error sentinel string.
C10_Witness ==
    /\ done.valid
    /\ done.cause = "error"
    /\ done.frame.tier = "muscle"
    /\ ret.t = ErrorSentinel("BackendFailure")
    /\ TopIs("refactor", "await")

(***************************************************************************)
(* SpecLive: the router under the assumption that every backend call       *)
(* returns or fails, every subprocess run returns or times out, and the    *)
(* interpreter keeps executing the code that is due.                       *)
(***************************************************************************)

\* The steps of a call in progress (everything but a caller's new call).
RouterStep ==
    \/ Deliver
    \/ BackendFails
    \/ \E r \in AllResponses : BackendAnswers(r)
    \/ Charge
    \/ Dispatch
    \/ ToolStep
    \/ ToolReturn
    \/ EndRound
    \/ RefactorStart
    \/ RefactorFinish
    \/ \E o \in ExitCodes : ValidateRun(o)
    \/ ValidateResume
    \/ WatchdogFinish

MaxLiveInvocations == 1

ValidateNone ==
    Call("validate_code", Args(TRUE, {"filepath", "command_list"}, FileNone))

\* The backends of SpecLive: those of Spec, with validate_code asked for a
\* file that is not there (every repair fails before the fast coder).
LiveMenus ==
    { Profile({ <<ReadF>>, <<ListSub, ReadOut>> }, FALSE),
      Profile({ <<Deploy, ReadNoKey>>, <<ReadNone>>, <<ReadF, ReadBadJson>> }, FALSE),
      Profile({ <<RefactorF>>, <<RefactorNone, RefactorOut, RefactorDir>> }, FALSE),
      Profile({ <<ValidateNone>> }, FALSE),
      Profile({ <<RefactorF>> }, TRUE) }

InitLive ==
    /\ fs = BaseFs
    /\ cwd = AllowedRoot
    /\ jop = NoJop
    /\ spent = 0
    /\ ceiling = RouterCeiling
    /\ wk = <<>>
    /\ led = <<>>
    /\ stack = <<>>
    /\ ret = NoRet
    /\ done = NoDone
    /\ menu \in LiveMenus
    /\ inv = 0

LiveAskCortex(history) == inv < MaxLiveInvocations /\ EnterAskCortex(history)
LiveAskWatchdog == inv < MaxLiveInvocations /\ EnterAskWatchdog

NextLive ==
    \/ \E h \in Histories : LiveAskCortex(h)
    \/ LiveAskWatchdog
    \/ RouterStep

SpecLive == InitLive /\ [][NextLive]_vars /\ WF_vars(RouterStep)

\* An ask_cortex invocation is in progress.
CortexRunning == stack # <<>> /\ stack[1].k = "route" /\ stack[1].tier = "cortex"

\* ask_cortex has just returned a final text answer to its caller.
CortexAnswered ==
    /\ stack = <<>>
    /\ done.valid /\ done.frame.tier = "cortex"
    /\ ret.has /\ ret.exc = "" /\ ret.t # NoText
    /\ \/ done.cause = "final" /\ ret.t \in {done.frame.resp.content, SilentSentinel}
       \/ done.cause = "loop" /\ ret.t = LoopSentinel
       \/ done.cause = "circuit" /\ ret.t = CircuitSentinel
       \/ done.cause = "error" /\ \E e \in RouterExceptions : ret.t = ErrorSentinel(e)

ValidateReturned == ~done.valid /\ done.cause = "validate"

\* The validate_code frames still running.
ValidateFrames ==
    { stack[i] : i \in { j \in 1..Len(stack) : stack[j].k = "validate" } }

\* C12: validate_code returns True at the first execution that exits 0 and
\* goes no further; every execution before it exited non-zero and was
\* followed by exactly one refactor_file call, so the repairs made equal the
\* non-zero exits that preceded (exits 1, 1, 0: True after 2 repairs and 3
\* executions).
C12_TrueAtFirstZeroExit ==
    /\ \A fr \in ValidateFrames : fr.last # "exit0" /\ fr.fixes = fr.runs
    /\ ValidateReturned =>
          /\ ret.b <=> done.frame.last = "exit0"
          /\ ret.b => done.frame.fixes = done.frame.runs - 1

\* C12 witness: exits 1, 1, 0 gave True after 3 executions and 2 repairs.
C12_Witness ==
    /\ ValidateReturned
    /\ ret.b
    /\ done.frame.runs = 3
    /\ done.frame.fixes = 2

\* C13: one validate_code invocation executes the command at most
\* max_retries (3) times and calls refactor_file at most 3 times, and
\* returns False when no execution exited 0.
C13_BoundedRetries ==
    /\ \A fr \in ValidateFrames \cup (IF ValidateReturned THEN {done.frame} ELSE {}) :
          fr.runs <= max_retries /\ fr.fixes <= max_retries
    /\ (ValidateReturned /\ done.frame.last # "exit0") => ~ret.b

\* C13 witness: three failed executions, three repairs, False.
C13_Witness ==
    /\ ValidateReturned
    /\ ~ret.b
    /\ done.frame.runs = 3
    /\ done.frame.fixes = 3
    /\ done.frame.last = "exit1"

\* C14: an execution that times out ends validate_code at once with False:
\* no repair for that attempt, no further execution, whatever retries
\* remain.
C14_TimeoutAborts ==
    /\ \A fr \in ValidateFrames : fr.last # "timeout"
    /\ (ValidateReturned /\ done.frame.last = "timeout") =>
          /\ ~ret.b
          /\ done.frame.pc = "run"
          /\ done.frame.fixes = done.frame.runs - 1

\* C14 witness: the second execution timed out with two retries left.
C14_Witness ==
    /\ ValidateReturned
    /\ done.frame.last = "timeout"
    /\ done.frame.runs = 2
    /\ done.frame.retries = 1
    /\ ~ret.b

\* refactor_file is about to read a path that is outside the sandbox or is
\* not a regular file.
RefactorReadFails ==
    /\ TopIs("refactor", "start")
    /\ LET v == verify_path(fs, cwd, Top.path)
       IN  v.exc # "ok" \/ ~IsFile(fs, v.path)

\* C15: when the initial read of refactor_file fails (file missing, path is
\* a directory, path outside the sandbox), refactor_file returns False, the
\* fast coder is not called and nothing is written: the filesystem and the
\* ledger stay as they were.
C15_ReadFailureChangesNothing ==
    [][RefactorReadFails =>
          /\ stack' = Below
          /\ ret' = RetBool(FALSE)
          /\ fs' = fs
          /\ spent' = spent]_vars

\* refactor_file has just returned; done.frame is its frame.
RefactorReturned == ~done.valid /\ done.cause = "refactor"

\* C15 witness: refactor_file on a path outside the sandbox returned False
\* from its read.
C15_Witness ==
    /\ RefactorReturned
    /\ done.frame.pc = "start"
    /\ done.frame.path = FileOut
    /\ ret = RetBool(FALSE)

\* The fast-coder call made by refactor_file has just come back as a
\* failure (transport failure or CircuitOpen).
FastCoderFailed ==
    /\ TopIs("refactor", "await")
    /\ done.valid
    /\ done.frame.tier = "muscle"
    /\ done.cause \in {"circuit", "error"}

\* C16: when the fast-coder call made by refactor_file fails, refactor_file
\* returns False and the target file keeps its content.
C16_FastCoderFailureGivesFalse ==
    [][FastCoderFailed => (ret' = RetBool(FALSE) /\ fs' = fs)]_vars

(***************************************************************************)
(* SpecFence: refactor_file receiving the fast coder's text                *)
(***************************************************************************)

MaxFenceLen == 6

\* The pieces a fast-coder answer is made of: the fence marker, a newline,
\* a language tag or other word, a piece of code.
FencePieces == {Fence, "\n", "py", "a"}

FenceTexts == UNION { [1..n -> FencePieces] : n \in 0..MaxFenceLen }

\* refactor_file("/jail/f", ...) at the return of ask_muscle_coder.
InitFence ==
    /\ fs = BaseFs
    /\ cwd = AllowedRoot
    /\ jop = NoJop
    /\ spent = 0
    /\ ceiling = RouterCeiling
    /\ wk = <<>>
    /\ led = <<>>
    /\ stack = << [refactor_frame(FileF) EXCEPT !.pc = "await"] >>
    /\ \E t \in FenceTexts : ret = RetText(t)
    /\ done = NoDone
    /\ menu = Profile({}, FALSE)
    /\ inv = 0

NextFence == RefactorFinish \/ Deliver

SpecFence == InitFence /\ [][NextFence]_vars

\* The positions where the lines of t begin.
LineStarts(t) == {1} \cup { i + 1 : i \in { j \in 1..Len(t) : t[j] = "\n" } }

\* The line of t that begins at position s.
LineAt(t, s) ==
    LET e == CHOOSE k \in s..(Len(t) + 1) :
                 /\ k = Len(t) + 1 \/ t[k] = "\n"
                 /\ \A j \in s..(k - 1) : t[j] # "\n"
    IN  SubSeq(t, s, e - 1)

BeginsWithFence(t, s) == s <= Len(t) /\ t[s] = Fence

\* insideBlock at the line beginning at s: an odd number of fence lines
\* came before it.
InsideBlock(t, s) ==
    Cardinality({ q \in LineStarts(t) : q < s /\ BeginsWithFence(t, q) }) % 2 = 1

RECURSIVE LinesJoined(_, _)
\* The lines of t beginning at the positions in S, in order, one per line.
LinesJoined(t, S) ==
    IF S = {} THEN <<>>
    ELSE LET s == CHOOSE x \in S : \A y \in S : x <= y
         IN  IF S = {s} THEN LineAt(t, s)
             ELSE LineAt(t, s) \o <<"\n">> \o LinesJoined(t, S \ {s})

\* What the fence-stripping rule says is written for the answer t.
Stripped(t) ==
    IF \A i \in 1..Len(t) : t[i] # Fence THEN t
    ELSE LinesJoined(t, { s \in LineStarts(t) :
                            ~BeginsWithFence(t, s) /\ InsideBlock(t, s) })

\* C17: refactor_file writes the fast coder's text with its fences stripped:
\* a line beginning with the fence marker toggles insideBlock and is dropped
\* with its language tag, any other line is kept exactly when insideBlock
\* holds, a text without any fence marker is written as it is; and when the
\* text has a fence line, no line of what is written begins with the marker.
C17_FenceStripping ==
    (RefactorReturned /\ done.frame.pc = "write" /\ ret.b) =>
        LET t == done.frame.new_code
            written == fs[<<"jail", "f">>].content
        IN  /\ written = Stripped(t)
            /\ (\E s \in LineStarts(t) : BeginsWithFence(t, s)) =>
                  \A q \in LineStarts(written) : ~BeginsWithFence(written, q)

\* C17 witness: a fenced block with a language tag around one line of code
\* was written as that line alone.
C17_Witness ==
    /\ RefactorReturned
    /\ ret.b
    /\ done.frame.new_code = <<Fence, "py", "\n", "a", "\n", Fence>>
    /\ fs[<<"jail", "f">>].content = <<"a">>

(***************************************************************************)
(* Router claims (Spec), continued                                         *)
(***************************************************************************)

\* The _route_request frames of the fast-coder tier, running or just
\* returned.
FastCoderFrames ==
    { stack[i] : i \in { j \in 1..Len(stack) : stack[j].tier = "muscle" } }
        \cup (IF done.valid /\ done.frame.tier = "muscle" THEN {done.frame} ELSE {})

\* C18: ask_muscle_coder is one request and one response: an invocation
\* issues exactly one backend request, offers no tools and executes no
\* tool, whatever the response contains.
C18_FastCoderSingleRequest ==
    \A fr \in FastCoderFrames :
        /\ ~fr.use_tools
        /\ fr.reqs <= 1
        /\ fr.pc \notin {"tools", "toolwait"}
        /\ \A i \in 1..Len(fr.msgs) : fr.msgs[i].role # "tool"

\* The responses of the invocation that carried tool calls and were taken
\* up (neither the request nor the charge raised).
ToolRounds(fr) ==
    Cardinality({ i \in 1..Len(fr.msgs) :
                    fr.msgs[i].role = "assistant" /\ fr.msgs[i].tool_calls # <<>> })

\* C19: the loop-exceeded sentinel is returned exactly when max_agent_loops
\* (5) consecutive responses of the invocation each carried a tool call and
\* none of them met CircuitOpen or a backend failure; a response without
\* tool calls before that ends the invocation with the final answer.
C19_LoopSentinelExactlyAtBound ==
    done.valid =>
        /\ done.cause = "loop" <=> ToolRounds(done.frame) = max_agent_loops
        /\ done.cause = "final" =>
              /\ done.frame.resp.tool_calls = <<>>
              /\ ToolRounds(done.frame) < max_agent_loops

\* C20: a charged response without tool calls ends the invocation with its
\* text content, an empty content being replaced by the completed-silently
\* sentinel; no invocation returns an empty string.
C20_FinalAnswerNeverEmpty ==
    /\ [](done.valid => (ret.t # NoText /\ ret.t = done.result))
    /\ [][(TopIs("route", "dispatch") /\ Top.resp.tool_calls = <<>>) =>
            /\ Top.charged
            /\ stack' = Below
            /\ ret' = RetText(IF Top.resp.content = NoText THEN SilentSentinel
                              ELSE Top.resp.content)]_vars

\* C20 witness: a reasoning response with neither tool calls nor content
\* came back as the completed-silently sentinel.
C20_Witness ==
    /\ done.valid
    /\ done.cause = "final"
    /\ done.frame.tier = "cortex"
    /\ done.frame.charged
    /\ done.frame.resp.content = NoText
    /\ ret.t = SilentSentinel

(***************************************************************************)
(* SpecPricing: estimate_cost on arbitrary token counts and model names    *)
(***************************************************************************)

MaxTokens == 4

\* The keys of pricing_map.
KnownModels == {"gpt-4o", "deepseek-coder", "llama3"}

\* Model identifiers handed to estimate_cost: the keys of the table, the
\* default watchdog identifier and a name nobody priced.
PricedModels == KnownModels \cup {watchdog_model, "mystery-model"}

NoEstimate == [valid |-> FALSE, prompt |-> 0, completion |-> 0, model |-> "",
               cost |-> 0]

\* cfo.estimate_cost(prompt_tokens, completion_tokens, model)
EstimateCost(p, c, m) ==
    /\ led' = [valid |-> TRUE, prompt |-> p, completion |-> c, model |-> m,
               cost |-> estimate_cost(p, c, m)]
    /\ UNCHANGED <<fs, cwd, jop, spent, ceiling, wk, routerVars>>

InitPricing ==
    /\ fs = BaseFs
    /\ cwd = AllowedRoot
    /\ jop = NoJop
    /\ spent = 0
    /\ ceiling = LedgerCeiling
    /\ wk = <<>>
    /\ led = NoEstimate
    /\ stack = <<>>
    /\ ret = <<>>
    /\ done = <<>>
    /\ menu = <<>>
    /\ inv = 0

NextPricing ==
    \E p \in 0..MaxTokens, c \in 0..MaxTokens, m \in PricedModels :
        EstimateCost(p, c, m)

SpecPricing == InitPricing /\ [][NextPricing]_vars

\* The known tiers that cost something.
PaidModels == { k \in KnownModels : Rates(k).input > 0 \/ Rates(k).output > 0 }

\* C21: for a model identifier that is not in the pricing table the default
\* rate pair is strictly higher than the rates of every known paid tier, so
\* the estimate is strictly positive as soon as one token count is positive
\* and is at least the estimate of any known tier for the same counts.
C21_UnknownTierConservative ==
    (led.valid /\ led.model \notin KnownModels) =>
        /\ \A k \in PaidModels :
              /\ Rates(led.model).input > Rates(k).input
              /\ Rates(led.model).output > Rates(k).output
        /\ (led.prompt + led.completion > 0) => led.cost > 0
        /\ \A k \in KnownModels :
              led.cost >= estimate_cost(led.prompt, led.completion, k)

\* C21 witness: one prompt and one completion token of an unpriced model
\* are estimated at 0.00001 + 0.00003 USD, twice what gpt-4o costs.
C21_Witness ==
    /\ led.valid
    /\ led.model = "mystery-model"
    /\ led.prompt = 1 /\ led.completion = 1
    /\ led.cost = 4000
    /\ estimate_cost(1, 1, "gpt-4o") = 2000

(***************************************************************************)
(* Watchdog claims                                                         *)
(***************************************************************************)

\* An ask_watchdog call is in progress.
WatchdogRunning == stack # <<>> /\ stack[1].k = "watchdog"

\* C22: watchdog polling is free: an ask_watchdog call with the default
\* watchdog model identifier adds nothing to spent, so no number of polls
\* changes the ledger or opens the circuit breaker.
C22_WatchdogIsFree ==
    /\ [][WatchdogRunning => spent' = spent]_vars
    /\ []((done.valid /\ done.frame.tier = "watchdog") => done.cause # "circuit")

(***************************************************************************)
(* SpecWatchdog: ask_watchdog's verdict on every short answer              *)
(***************************************************************************)

MaxAnswerLen == 4

\* The letters an answer is spelled with.
AnswerLetters == {"y", "Y", "e", "E", "s", "S", "o"}

AnswerTexts == UNION { [1..n -> AnswerLetters] : n \in 0..MaxAnswerLen }

\* ask_watchdog has received the text of its request.
InitWatchdog ==
    /\ fs = BaseFs
    /\ cwd = AllowedRoot
    /\ jop = NoJop
    /\ spent = 0
    /\ ceiling = RouterCeiling
    /\ wk = <<>>
    /\ led = <<>>
    /\ stack = <<watchdog_frame>>
    /\ \E t \in AnswerTexts : ret = RetText(t)
    /\ done = NoDone
    /\ menu = <<>>
    /\ inv = 0

NextWatchdog == WatchdogFinish \/ Deliver

SpecWatchdog == InitWatchdog /\ [][NextWatchdog]_vars

\* ask_watchdog has just returned its boolean.
WatchdogReturned == done.cause = "watchdog"

\* The letters y, e, s in either case, next to each other, somewhere in t.
SpellsYes(t) ==
    \E i \in 1..(Len(t) - 2) :
        /\ t[i] \in {"y", "Y"}
        /\ t[i + 1] \in {"e", "E"}
        /\ t[i + 2] \in {"s", "S"}

\* C23: ask_watchdog returns true exactly when the text its request returned
\* contains YES in any mix of cases anywhere, also inside another word.
C23_WatchdogYes ==
    WatchdogReturned => (ret.b <=> SpellsYes(done.result))

\* C23 witness: a lower-case "yes" embedded in a longer word gives true.
C23_Witness ==
    /\ WatchdogReturned
    /\ done.result = <<"e", "y", "E", "s">>
    /\ ret.b

(***************************************************************************)
(* PathJail claims, continued (SpecJail)                                   *)
(***************************************************************************)

\* AllowedRoot's components are the first components of c, one by one.
UnderRoot(c) ==
    /\ Len(c) >= Len(AllowedRoot)
    /\ \A i \in 1..Len(AllowedRoot) : c[i] = AllowedRoot[i]

\* C24: containment is decided component by component on the canonical path:
\* verify accepts a path exactly when AllowedRoot's components begin its
\* canonical components and rejects every other path with SecurityViolation,
\* also one that only shares a string prefix with the root (/jailx/f).
C24_ComponentWise ==
    jop.op = "verify" =>
        /\ jop.exc = "ok" <=> UnderRoot(Canon(jop.arg))
        /\ jop.exc \in {"ok", "SecurityViolation"}
        /\ (Canon(jop.arg) # <<>> /\ Canon(jop.arg)[1] = "jailx")
              => jop.exc = "SecurityViolation"

\* C24 witness: verify of /jailx/f, next to the root /jail, was rejected.
C24_Witness ==
    /\ jop.op = "verify"
    /\ jop.arg = MkPath(TRUE, <<"jailx", "f">>)
    /\ Canon(jop.arg) = <<"jailx", "f">>
    /\ jop.exc = "SecurityViolation"

\* C25: verify is idempotent: verifying the path an accepted verify returned
\* succeeds and returns that same path.
C25_VerifyIdempotent ==
    (jop.op = "verify" /\ jop.exc = "ok") =>
        verify_path(fs, cwd, MkPath(TRUE, jop.path))
            = [exc |-> "ok", path |-> jop.path]

\* C25 witness: a path through a chain of two symlinks was accepted and
\* resolved to the file at the end of the chain.
C25_Witness ==
    /\ jop.op = "verify"
    /\ jop.exc = "ok"
    /\ jop.arg = MkPath(TRUE, <<"jail", "in2">>)
    /\ IsLink(fs, <<"jail", "in2">>)
    /\ IsLink(fs, <<"jail", "in">>)
    /\ jop.path = <<"jail", "f">>

\* The step is a write_file call that succeeded.
WriteSucceeds == jop'.op = "write" /\ jop'.exc = "ok"

\* C26: a successful write(p, c) creates the missing parent directories and
\* replaces the content, so that read(p) right after it returns exactly c,
\* and no path other than p and its missing ancestors is changed.
C26_WriteThenRead ==
    [][WriteSucceeds =>
        LET target == Resolve(fs, cwd, jop'.arg)
        IN  /\ read_file(fs', cwd', jop'.arg) = [exc |-> "ok", text |-> jop'.text]
            /\ \A a \in Ancestors(target) : IsDir(fs', a)
            /\ \A q \in DOMAIN fs : q # target => (Exists(fs', q) /\ fs'[q] = fs[q])
            /\ DOMAIN fs' \subseteq DOMAIN fs \cup {target} \cup Ancestors(target)
      ]_vars

\* The two errors the code raises for what is not there.
NotFound == {"FileNotFoundError", "NotADirectoryError"}

\* C27: read(p) fails NotFound when the resolved in-root path is missing or
\* is a directory, list(d) fails NotFound when the resolved in-root path is
\* not a directory, and in both containment comes first: an out-of-root path
\* fails SecurityViolation whether or not it exists.
C27_NotFoundAfterContainment ==
    /\ jop.op = "read" =>
         LET c == Canon(jop.arg)
         IN  /\ ~UnderRoot(c) => jop.exc = "SecurityViolation"
             /\ (UnderRoot(c) /\ (~Exists(fs, c) \/ IsDir(fs, c)))
                    => jop.exc \in NotFound
             /\ (UnderRoot(c) /\ IsFile(fs, c)) => jop.exc = "ok"
    /\ jop.op = "list" =>
         LET c == Canon(JoinRoot(jop.arg))
         IN  /\ ~UnderRoot(c) => jop.exc = "SecurityViolation"
             /\ (UnderRoot(c) /\ ~IsDir(fs, c)) => jop.exc \in NotFound
             /\ (UnderRoot(c) /\ IsDir(fs, c)) => jop.exc = "ok"

\* C27 witness: listing a file of the jail failed NotFound.
C27_Witness ==
    /\ jop.op = "list"
    /\ jop.arg = MkPath(FALSE, <<"f">>)
    /\ IsFile(fs, <<"jail", "f">>)
    /\ jop.exc = "NotADirectoryError"

(***************************************************************************)
(* Conversation claims (Spec)                                              *)
(***************************************************************************)

\* The positions of the stack that hold a _route_request frame.
RoutePositions(st) == { i \in 1..Len(st) : st[i].k = "route" }

\* What came after the last request in fr's conversation is the assistant
\* turn of the response to it followed by one tool turn per tool call of
\* that response, in the order of the calls.
OneRoundAdded(fr) ==
    LET calls == fr.resp.tool_calls
    IN  /\ Len(fr.msgs) = fr.sent + 1 + Len(calls)
        /\ fr.msgs[fr.sent + 1] = AssistantMsg(fr.resp)
        /\ \A j \in 1..Len(calls) :
             /\ fr.msgs[fr.sent + 1 + j].role = "tool"
             /\ fr.msgs[fr.sent + 1 + j].tool_call_id = calls[j].id
             /\ fr.msgs[fr.sent + 1 + j].name = calls[j].name

\* m is the conversation in its contracted order: the system turn, the
\* caller's history h, the user turn, then assistant and tool turns that
\* alternate (every assistant turn but the first follows a tool turn).
InOrder(m, h) ==
    LET first == Len(h) + 3
    IN  /\ Len(m) >= Len(h) + 2
        /\ m[1].role = "system"
        /\ SubSeq(m, 2, Len(h) + 1) = h
        /\ m[Len(h) + 2].role = "user"
        /\ \A j \in first..Len(m) :
             /\ m[j].role \in {"assistant", "tool"}
             /\ j = first => m[j].role = "assistant"
             /\ (j > first /\ m[j].role = "assistant") => m[j - 1].role = "tool"

\* The history the caller handed to the entry point behind a frame.
HistoriesOf(fr) == IF fr.tier = "cortex" THEN Histories ELSE { <<>> }

Finishes(w) == wk[w].pc = "stored" /\ wk'[w].pc = "idle"

\* C29: the circuit breaker latches: once an add_cost call has failed, spent
\* stays above the ceiling for the rest of the process and every add_cost
\* call entered later fails too, also when the calls of concurrent workers
\* interleave.
C29_BreakerLatches ==
    /\ [](led.tripped => spent > ceiling)
    /\ [][\A w \in Workers :
            (Finishes(w) /\ wk[w].late) => led'.last.raised]_vars

\* The tool turns of fr's conversation that no request has carried.
UnseenResults(fr) ==
    { i \in (fr.sent + 1)..Len(fr.msgs) : fr.msgs[i].role = "tool" }

\* C30: every tool result appended to the conversation is delivered to the
\* backend: when an invocation of the loop ends, each round's tool-result
\* messages were part of a later request of that invocation, so no tool ran
\* whose result the backend never saw.
C30_ResultsDelivered == done.valid => UnseenResults(done.frame) = {}

(***************************************************************************)
(* Surgeon claims, continued (Spec)                                        *)
(***************************************************************************)

\* C31: in validate_code every repair is re-validated: each refactor_file
\* call of the retry loop is followed by another execution of the validation
\* command before validate_code returns, so it never returns with a rewrite
\* nobody validated as its last action on the file.
C31_RepairsRevalidated ==
    ValidateReturned => done.frame.runs > done.frame.fixes

(***************************************************************************)
(* PathJail claims, list and read (SpecJail)                               *)
(***************************************************************************)

\* The entry e of a listing, taken under the jail root.
UnderJail(e) == MkPath(TRUE, AllowedRoot \o e.parts)

\* C32: list and read agree on relative paths: for every entry e returned
\* by list(d) that names a file, read(e) succeeds and returns the content of
\* the file at AllowedRoot/e (the text a read of that file gives), whatever
\* the process working directory is.
C32_ListReadAgree ==
    (jop.op = "list" /\ jop.exc = "ok") =>
        \A e \in jop.entries :
            LET there == read_file(fs, cwd, UnderJail(e))
            IN  there.exc = "ok" => read_file(fs, cwd, e) = there

====
